---- MODULE Spec2Model ----
(***************************************************************************)
(* Lineage ledger of Poci-Prototype-V3.1: events signed by agents, the     *)
(* SQLite-backed LineageStore with its index / prev_hash checks, the       *)
(* attacker variants of the stress harness, the full verifier, its anomaly *)
(* counters and the reputation controller.                                 *)
(*                                                                         *)
(* Strings and byte strings are sequences of one-character strings.        *)
(* BLAKE2b is an ideal (collision-free) hash: the digest of a byte string  *)
(* is that byte string between two bracket characters that occur in no     *)
(* payload, model_id or number.  Ed25519 is an ideal signature scheme: a   *)
(* signature names the key pair and the signed bytes.                      *)
(***************************************************************************)
EXTENDS Integers, Sequences, FiniteSets, TLC

\* ------------------------------------------------------------------ bounds

\* The store accepts appends while it holds fewer than MaxLog events.
MaxLog == 3
\* make_event is taken while the timestamp it produces is at most MaxTs.
MaxTs == 2
\* The wall clock reads a value in 0..MaxClock, in any order.
MaxClock == 2
\* verify_event_full is taken while total_events is below MaxVerify.
MaxVerify == 1

\* --------------------------------------------------------------- constants

\* len(GENESIS), and the length of the attackers' sentinel strings.
HexLen == 64
\* The batch size of LineageStore.append.
BatchSize == 1000

GENESIS == [i \in 1..HexLen |-> "0"]

\* "DEAD" * 16 and "BEEF" * 16
Repeat4(w) == [i \in 1..HexLen |-> w[((i - 1) % 4) + 1]]
DEAD16 == Repeat4(<<"D", "E", "A", "D">>)
BEEF16 == Repeat4(<<"B", "E", "E", "F">>)

SHADOW == <<"_", "s", "h", "a", "d", "o", "w">>

\* ------------------------------------------------------ agents and payloads

\* Agent instances of a run.  Each is constructed with a model_id and is of one
\* of the four classes of the harness (the variables model_id and variant).
Agents == {"a1", "a2"}

Variants == {"Honest", "SigCheat", "CommitDrift", "SlowDrip"}

Models == {"A", "B"}

\* The key pair generate_keypair() gave the instance: sk and vk are named by
\* the instance itself.
SigningKey(a) == a
VerifyKey(a) == a

Payloads == {<<"x">>}

Clock == 0..MaxClock

\* ------------------------------------------------------------ crypto_utils

Max(S) == CHOOSE x \in S : \A y \in S : y <= x

Digit(d) == <<"0", "1", "2", "3", "4", "5", "6", "7", "8", "9">>[d + 1]

\* str(n).encode("utf-8") for n >= 0
RECURSIVE IntStr(_)
IntStr(n) == IF n < 10 THEN <<Digit(n)>> ELSE IntStr(n \div 10) \o <<Digit(n % 10)>>

\* model_id.encode("utf-8"): the model ids are one character long.
IdStr(m) == <<m>>

\* hashlib.blake2b(digest_size=32) over `bytes`, hexdigest()
Blake2b(bytes) == <<"<">> \o bytes \o <<">">>

commit_payload(payload) == Blake2b(payload)

\* Mutant of hash_payload: the payload is left out of the hash input.
hash_payload_NoPayload(mid, index, prev_hash, payload, ts) ==
    Blake2b(IdStr(mid) \o <<"|">> \o IntStr(index) \o <<"|">> \o prev_hash
            \o <<"|">> \o <<"|">> \o IntStr(ts))

hash_payload(mid, index, prev_hash, payload, ts) ==
    Blake2b(IdStr(mid) \o <<"|">> \o IntStr(index) \o <<"|">> \o prev_hash
            \o <<"|">> \o payload \o <<"|">> \o IntStr(ts))

sign_event(message_bytes, sk) == [key |-> sk, msg |-> message_bytes]

verify_signature(vk, message_bytes, signature) ==
    signature.key = vk /\ signature.msg = message_bytes

\* bytes[::-1]
Reverse(s) == [i \in 1..Len(s) |-> s[Len(s) + 1 - i]]

\* ------------------------------------------------------------------- state

VARIABLES
    events,         \* rows of the events table as the connection sees them
    pending,        \* LineageStore._pending
    autocommit,     \* LineageStore.autocommit
    committed,      \* number of rows made durable by conn.commit()
    model_id,       \* BaseModel.model_id of each instance
    variant,        \* the class of each instance
    agent_last_ts,  \* BaseModel._last_ts of each instance
    ev,             \* the event each instance built last (the driver's ev)
    branch,         \* the random draw of that make_event call
    state,          \* Controller.state
    stats,          \* AnomalyStats
    ret             \* the last call: operation, inputs, outcome

store == <<events, pending, autocommit, committed>>
agents == <<model_id, variant>>
vars == <<events, pending, autocommit, committed, model_id, variant, agent_last_ts,
          ev, branch, state, stats, ret>>

\* A signature nobody made.
NoSignature == [key |-> "none", msg |-> <<>>]

Event(mid, index, ts, payload, payload_hash, payload_commit, prev_hash, event_hash, signature) ==
    [model_id |-> mid, index |-> index, ts |-> ts, payload |-> payload,
     payload_hash |-> payload_hash, payload_commit |-> payload_commit,
     prev_hash |-> prev_hash, event_hash |-> event_hash, signature |-> signature]

\* The instance has built no event yet.
NoEvent == Event("", -1, 0, <<>>, <<>>, <<>>, <<>>, <<>>, NoSignature)

\* Mutant of canonical_bytes: event_hash and payload_commit change places.
canonical_bytes_Swapped(e) ==
    IdStr(e.model_id) \o <<"|">> \o IntStr(e.index) \o <<"|">> \o e.prev_hash
    \o <<"|">> \o e.payload_commit \o <<"|">> \o e.event_hash \o <<"|">>
    \o IntStr(e.ts)

canonical_bytes(e) ==
    IdStr(e.model_id) \o <<"|">> \o IntStr(e.index) \o <<"|">> \o e.prev_hash
    \o <<"|">> \o e.event_hash \o <<"|">> \o e.payload_commit \o <<"|">>
    \o IntStr(e.ts)

\* ------------------------------------------------------------ LineageStore

Rows(mid) == {i \in 1..Len(events) : events[i].model_id = mid}

\* The row with the greatest idx among the rows lo..hi of model_id, 0 if there
\* is none (the two halves are searched apart, which keeps the evaluation of a
\* thousand rows shallow).
RECURSIVE LastRowIn(_, _, _)
LastRowIn(mid, lo, hi) ==
    IF lo > hi THEN 0
    ELSE IF lo = hi THEN (IF events[lo].model_id = mid THEN lo ELSE 0)
    ELSE LET l == LastRowIn(mid, lo, (lo + hi) \div 2)
             r == LastRowIn(mid, (lo + hi) \div 2 + 1, hi)
         IN IF l = 0 THEN r
            ELSE IF r = 0 THEN l
            ELSE IF events[l].index <= events[r].index THEN r ELSE l

\* ORDER BY idx DESC LIMIT 1 among the rows of model_id
LastRow(mid) == LastRowIn(mid, 1, Len(events))

\* MAX(idx) over the rows lo..hi, lo <= hi
RECURSIVE MaxIdx(_, _)
MaxIdx(lo, hi) ==
    IF lo = hi THEN events[lo].index
    ELSE LET l == MaxIdx(lo, (lo + hi) \div 2)
             r == MaxIdx((lo + hi) \div 2 + 1, hi)
         IN IF l <= r THEN r ELSE l

\* Mutant of next_index: MAX(idx) without the + 1.
next_index_NoPlusOne ==
    IF events = <<>> THEN 0
    ELSE MaxIdx(1, Len(events))

\* SELECT COALESCE(MAX(idx) + 1, 0) FROM events
next_index ==
    IF events = <<>> THEN 0
    ELSE MaxIdx(1, Len(events)) + 1

\* Mutant of last_hash: the WHERE model_id = ? clause is missing.
last_hash_AnyModel(mid) ==
    IF events = <<>> THEN GENESIS ELSE events[Len(events)].event_hash

last_hash(mid) ==
    IF LastRow(mid) = 0 THEN GENESIS ELSE events[LastRow(mid)].event_hash

\* None is -1
None == -1
last_ts(mid) ==
    IF LastRow(mid) = 0 THEN None ELSE events[LastRow(mid)].ts

\* ORDER BY idx
RECURSIVE SortByIdx(_)
SortByIdx(S) ==
    IF S = {} THEN <<>>
    ELSE LET i == CHOOSE k \in S : \A j \in S : events[k].index <= events[j].index
         IN <<events[i]>> \o SortByIdx(S \ {i})

\* Mutant of get_chain: the WHERE model_id = ? clause is missing.
get_chain_AnyModel(mid) == SortByIdx(1..Len(events))

get_chain(mid) == SortByIdx(Rows(mid))

all_events == SortByIdx(1..Len(events))

\* ---------------------------------------------------------------- BaseModel

\* Mutant of next_ts: self._last_ts without the + 1.
next_ts_NoPlusOne(a, now) ==
    LET last_db_ts == last_ts(model_id[a])
    IN Max({now, agent_last_ts[a],
            IF last_db_ts # None THEN last_db_ts + 1 ELSE 0})

\* Mutant of next_ts: the persisted chain is not consulted.
next_ts_NoDb(a, now) ==
    Max({now, agent_last_ts[a] + 1})

\* max(now, self._last_ts + 1, (last_db_ts + 1) if last_db_ts is not None else 0)
next_ts(a, now) ==
    LET last_db_ts == last_ts(model_id[a])
    IN Max({now, agent_last_ts[a] + 1,
            IF last_db_ts # None THEN last_db_ts + 1 ELSE 0})

\* Mutant of BaseMakeEvent: cheat is ignored, the canonical bytes are signed.
BaseMakeEvent_IgnoresCheat(a, payload, cheat, now) ==
    LET idx == next_index
        prev == last_hash(model_id[a])
        ts == next_ts(a, now)
        payload_commit == commit_payload(payload)
        ev_hash == hash_payload(model_id[a], idx, prev, payload, ts)
        canonical == IdStr(model_id[a]) \o <<"|">> \o IntStr(idx) \o <<"|">> \o prev
                     \o <<"|">> \o ev_hash \o <<"|">> \o payload_commit \o <<"|">>
                     \o IntStr(ts)
    IN Event(model_id[a], idx, ts, payload, ev_hash, payload_commit, prev,
             ev_hash, sign_event(canonical, SigningKey(a)))

\* BaseModel.make_event(store, payload, cheat) at wall-clock reading now
BaseMakeEvent(a, payload, cheat, now) ==
    LET idx == next_index
        prev == last_hash(model_id[a])
        ts == next_ts(a, now)
        payload_commit == commit_payload(payload)
        ev_hash == hash_payload(model_id[a], idx, prev, payload, ts)
        payload_hash == ev_hash
        canonical == IdStr(model_id[a]) \o <<"|">> \o IntStr(idx) \o <<"|">> \o prev
                     \o <<"|">> \o ev_hash \o <<"|">> \o payload_commit \o <<"|">>
                     \o IntStr(ts)
        message_bytes == IF ~cheat THEN canonical ELSE Reverse(canonical)
        sig == sign_event(message_bytes, SigningKey(a))
    IN Event(model_id[a], idx, ts, payload, payload_hash, payload_commit, prev,
             ev_hash, sig)

\* ------------------------------------------------- run_stress: the variants

\* What the random draws of one make_event call can come to, per variant:
\* SigCheat's use_cheat, CommitDrift's drift draw and mode, SlowDrip's drip draw.
Draws(a) ==
    CASE variant[a] = "Honest" -> {"honest"}
      [] variant[a] = "SigCheat" -> {"honest", "cheat"}
      [] variant[a] = "CommitDrift" ->
            {"honest", "payload_commit_only", "event_hash_only", "both"}
      [] variant[a] = "SlowDrip" -> {"honest", "drip"}

\* Mutant of CommitDriftMutate: the hash modes overwrite prev_hash as well.
CommitDriftMutate_TouchesPrev(e, draw) ==
    IF draw = "honest" THEN e
    ELSE LET e1 == IF draw \in {"payload_commit_only", "both"}
                   THEN [e EXCEPT !.payload_commit = DEAD16]
                   ELSE e
         IN IF draw \in {"event_hash_only", "both"}
            THEN [e1 EXCEPT !.event_hash = BEEF16, !.payload_hash = BEEF16,
                            !.prev_hash = BEEF16]
            ELSE e1

\* Mutant of CommitDriftMutate: the two mode tests are exchanged.
CommitDriftMutate_ModeMixup(e, draw) ==
    IF draw = "honest" THEN e
    ELSE LET e1 == IF draw \in {"event_hash_only", "both"}
                   THEN [e EXCEPT !.payload_commit = DEAD16]
                   ELSE e
         IN IF draw \in {"payload_commit_only", "both"}
            THEN [e1 EXCEPT !.event_hash = BEEF16, !.payload_hash = BEEF16]
            ELSE e1

CommitDriftMutate(e, draw) ==
    IF draw = "honest" THEN e
    ELSE LET e1 == IF draw \in {"payload_commit_only", "both"}
                   THEN [e EXCEPT !.payload_commit = DEAD16]
                   ELSE e
         IN IF draw \in {"event_hash_only", "both"}
            THEN [e1 EXCEPT !.event_hash = BEEF16, !.payload_hash = BEEF16]
            ELSE e1

\* Mutant of SlowDripMutate: the drip overwrites prev_hash as well.
SlowDripMutate_TouchesPrev(e, draw) ==
    IF draw = "honest" THEN e
    ELSE [e EXCEPT !.payload = e.payload \o SHADOW, !.prev_hash = DEAD16]

SlowDripMutate(e, draw) ==
    IF draw = "honest" THEN e
    ELSE [e EXCEPT !.payload = e.payload \o SHADOW]

\* mutate_event of the instance's class; AttackerModel's default returns ev.
mutate_event(a, e, draw) ==
    CASE variant[a] = "CommitDrift" -> CommitDriftMutate(e, draw)
      [] variant[a] = "SlowDrip" -> SlowDripMutate(e, draw)
      [] OTHER -> e

\* m.make_event(store, payload) as the drivers call it (cheat defaults to
\* False; SigCheatAttacker replaces it by its own draw).
make_event(a, payload, draw, now) ==
    CASE variant[a] = "Honest" -> BaseMakeEvent(a, payload, FALSE, now)
      [] variant[a] = "SigCheat" ->
            mutate_event(a, mutate_event(a, BaseMakeEvent(a, payload, draw = "cheat", now), draw), draw)
      [] OTHER -> mutate_event(a, BaseMakeEvent(a, payload, FALSE, now), draw)

\* ------------------------------------------------ verifier and controller

CommitOk(e) == commit_payload(e.payload) = e.payload_commit

EventHashOk(e) ==
    /\ hash_payload(e.model_id, e.index, e.prev_hash, e.payload, e.ts) = e.event_hash
    /\ e.payload_hash = e.event_hash

SigOk(e, vk) == verify_signature(vk, canonical_bytes(e), e.signature)

VerifyOk(e, vk) == SigOk(e, vk) /\ CommitOk(e) /\ EventHashOk(e)

Min2(x, y) == IF x < y THEN x ELSE y
Max2(x, y) == IF x > y THEN x ELSE y

\* Controller._ensure
Ensure(st, mid) ==
    IF mid \in DOMAIN st THEN st
    ELSE [m \in DOMAIN st \cup {mid} |->
            IF m = mid THEN [weight |-> 1000, theta |-> 500] ELSE st[m]]

\* Mutant of ControllerUpdate: the bad branch does not clamp the weight at 0.
ControllerUpdate_NoFloor(st, mid, valid) ==
    LET s1 == Ensure(st, mid)
        m == s1[mid]
    IN [s1 EXCEPT ![mid] =
          IF valid
          THEN [weight |-> Min2(1000, m.weight + 30), theta |-> Max2(50, m.theta - 8)]
          ELSE [weight |-> m.weight - 100, theta |-> Min2(500, m.theta + 30)]]

\* Mutant of ControllerUpdate: a bad verdict resets every known model_id's theta.
ControllerUpdate_Spills(st, mid, valid) ==
    LET s1 == Ensure(st, mid)
        m == s1[mid]
    IN IF valid
       THEN [s1 EXCEPT ![mid] = [weight |-> Min2(1000, m.weight + 30), theta |-> Max2(50, m.theta - 8)]]
       ELSE [k \in DOMAIN s1 |->
               IF k = mid
               THEN [weight |-> Max2(0, m.weight - 100), theta |-> Min2(500, m.theta + 30)]
               ELSE [s1[k] EXCEPT !.theta = 500]]

\* Controller.update
ControllerUpdate(st, mid, valid) ==
    LET s1 == Ensure(st, mid)
        m == s1[mid]
    IN [s1 EXCEPT ![mid] =
          IF valid
          THEN [weight |-> Min2(1000, m.weight + 30), theta |-> Max2(50, m.theta - 8)]
          ELSE [weight |-> Max2(0, m.weight - 100), theta |-> Min2(500, m.theta + 30)]]

\* AnomalyStats.mark_bad
MarkBad(st, mid) ==
    [st EXCEPT !.bad_events = @ + 1,
               !.per_model_bad = [m \in DOMAIN @ \cup {mid} |->
                    IF m = mid
                    THEN (IF m \in DOMAIN @ THEN @[m] ELSE 0) + 1
                    ELSE @[m]]]

\* Mutant of StatsAfter: mark_bad is called once per failed check.
StatsAfter_MarksEachCheck(st, e, vk) ==
    LET s1 == [st EXCEPT !.total_events = @ + 1,
                         !.sig_invalid = IF ~SigOk(e, vk) THEN @ + 1 ELSE @,
                         !.commit_mismatch = IF ~CommitOk(e) THEN @ + 1 ELSE @,
                         !.eventhash_mismatch = IF ~EventHashOk(e) THEN @ + 1 ELSE @]
        s2 == IF ~SigOk(e, vk) THEN MarkBad(s1, e.model_id) ELSE s1
        s3 == IF ~CommitOk(e) THEN MarkBad(s2, e.model_id) ELSE s2
    IN IF ~EventHashOk(e) THEN MarkBad(s3, e.model_id) ELSE s3

\* The counters of verify_event_full after one more event
StatsAfter(st, e, vk) ==
    LET s1 == [st EXCEPT !.total_events = @ + 1,
                         !.sig_invalid = IF ~SigOk(e, vk) THEN @ + 1 ELSE @,
                         !.commit_mismatch = IF ~CommitOk(e) THEN @ + 1 ELSE @,
                         !.eventhash_mismatch = IF ~EventHashOk(e) THEN @ + 1 ELSE @]
    IN IF ~VerifyOk(e, vk) THEN MarkBad(s1, e.model_id) ELSE s1

\* ----------------------------------------------------------------- actions

Call(op, agent, e, now, result) ==
    [op |-> op, agent |-> agent, ev |-> e, now |-> now, result |-> result]

Init ==
    /\ events = <<>>
    /\ pending = 0
    /\ autocommit \in BOOLEAN
    /\ committed = 0
    /\ model_id \in [Agents -> Models]
    /\ model_id["a1"] = "A"
    /\ variant \in [Agents -> Variants]
    /\ variant["a1"] \in {"Honest", "SigCheat"}
    /\ variant["a2"] \in {"CommitDrift", "SlowDrip"}
    /\ agent_last_ts = [a \in Agents |-> 0]
    /\ ev = [a \in Agents |-> NoEvent]
    /\ branch = [a \in Agents |-> "none"]
    /\ state = <<>>
    /\ stats = [total_events |-> 0, sig_invalid |-> 0, commit_mismatch |-> 0,
                eventhash_mismatch |-> 0, bad_events |-> 0, per_model_bad |-> <<>>]
    /\ ret = Call("init", "none", NoEvent, 0, "ok")

\* ev = m.make_event(store, payload)
MakeEvent(a) ==
    \E payload \in Payloads, now \in Clock, draw \in Draws(a) :
        /\ next_ts(a, now) <= MaxTs
        /\ ev' = [ev EXCEPT ![a] = make_event(a, payload, draw, now)]
        /\ branch' = [branch EXCEPT ![a] = draw]
        /\ agent_last_ts' = [agent_last_ts EXCEPT ![a] = next_ts(a, now)]
        /\ ret' = Call("make_event", a, ev'[a], now, "ok")
        /\ UNCHANGED <<store, agents, state, stats>>

\* lineage.rebuild_event
rebuild_event(mid, index, payload, prev_hash, ts, signature) ==
    LET payload_commit == commit_payload(payload)
        ev_hash == hash_payload(mid, index, prev_hash, payload, ts)
        payload_hash == ev_hash
    IN Event(mid, index, ts, payload, payload_hash, payload_commit, prev_hash,
             ev_hash, signature)

\* Mutant of AppendResult: the prev_hash check is missing.
AppendResult_NoPrevCheck(e) ==
    IF e.index # next_index THEN "IndexMismatch" ELSE "ok"

\* Mutant of AppendResult: the index check is missing.
AppendResult_NoIndexCheck(e) ==
    IF e.prev_hash # last_hash(e.model_id) THEN "PrevHashMismatch" ELSE "ok"

\* The outcome of LineageStore.append(e) in the current store
AppendResult(e) ==
    IF e.index # next_index THEN "IndexMismatch"
    ELSE IF e.prev_hash # last_hash(e.model_id) THEN "PrevHashMismatch"
    ELSE "ok"

\* Mutant of StoreAppend: _pending is counted before the checks.
StoreAppend_CountsRejected(e) ==
    /\ events' = IF AppendResult(e) = "ok" THEN Append(events, e) ELSE events
    /\ pending' = pending + 1
    /\ UNCHANGED <<autocommit, committed>>

\* Mutant of StoreAppend: the INSERT replaces the last row of the same model_id.
StoreAppend_Replaces(e) ==
    IF AppendResult(e) # "ok"
    THEN UNCHANGED <<events, pending, autocommit, committed>>
    ELSE /\ events' = IF LastRow(e.model_id) = 0 THEN Append(events, e)
                      ELSE [events EXCEPT ![LastRow(e.model_id)] = e]
         /\ IF autocommit /\ pending + 1 >= BatchSize
            THEN pending' = 0 /\ committed' = Len(events) + 1
            ELSE pending' = pending + 1 /\ committed' = committed
         /\ UNCHANGED autocommit

\* Mutant of StoreAppend: the batch test is > instead of >=.
StoreAppend_LateFlush(e) ==
    IF AppendResult(e) # "ok"
    THEN UNCHANGED <<events, pending, autocommit, committed>>
    ELSE /\ events' = Append(events, e)
         /\ IF autocommit /\ pending + 1 > BatchSize
            THEN pending' = 0 /\ committed' = Len(events) + 1
            ELSE pending' = pending + 1 /\ committed' = committed
         /\ UNCHANGED autocommit

\* LineageStore.append(e): the store after the call
StoreAppend(e) ==
    IF AppendResult(e) # "ok"
    THEN UNCHANGED <<events, pending, autocommit, committed>>
    ELSE /\ events' = Append(events, e)
         /\ IF autocommit /\ pending + 1 >= BatchSize
            THEN pending' = 0 /\ committed' = Len(events) + 1
            ELSE pending' = pending + 1 /\ committed' = committed
         /\ UNCHANGED autocommit

\* The log is explored up to MaxLog events, and up to MaxLog events past a
\* batch boundary once a whole batch has been written.
BulkLen == BatchSize - 1

LogCap == IF Len(events) >= BulkLen THEN BulkLen + MaxLog ELSE MaxLog

\* store.append(ev) with the event the instance built last
AppendEvent(a) ==
    /\ ev[a] # NoEvent
    /\ AppendResult(ev[a]) = "ok" => Len(events) < LogCap
    /\ StoreAppend(ev[a])
    /\ ret' = Call("append", a, ev[a], 0, AppendResult(ev[a]))
    /\ UNCHANGED <<agents, agent_last_ts, ev, branch, state, stats>>

\* store.append(rebuild_event(model_id, index, payload, prev_hash, ts, signature))
\* with raw pieces of the caller's choosing
AppendRebuilt ==
    \E mid \in Models, index \in {next_index, next_index + 1}, payload \in {<<"x">>},
       prev_hash \in {GENESIS, last_hash("A")},
       ts \in {MaxClock} :
        LET e == rebuild_event(mid, index, payload, prev_hash, ts, NoSignature)
        IN /\ AppendResult(e) = "ok" => Len(events) < MaxLog
           /\ StoreAppend(e)
           /\ ret' = Call("append", "caller", e, 0, AppendResult(e))
           /\ UNCHANGED <<agents, agent_last_ts, ev, branch, state, stats>>

\* store.conn.commit()
Commit ==
    /\ committed < Len(events)
    /\ committed' = Len(events)
    /\ ret' = Call("commit", "none", NoEvent, 0, "ok")
    /\ UNCHANGED <<events, pending, autocommit, agents, agent_last_ts, ev, branch, state, stats>>

\* Mutant of Verify: the verifier writes the recomputed hash back to the event.
Verify_RepairsEvent(a) ==
    /\ ev[a] # NoEvent
    /\ stats.total_events < MaxVerify
    /\ stats' = StatsAfter(stats, ev[a], VerifyKey(a))
    /\ state' = ControllerUpdate(state, ev[a].model_id, VerifyOk(ev[a], VerifyKey(a)))
    /\ ret' = Call("verify", a, ev[a], 0,
                   IF VerifyOk(ev[a], VerifyKey(a)) THEN "ok" ELSE "bad")
    /\ ev' = [ev EXCEPT ![a].event_hash =
                 hash_payload(ev[a].model_id, ev[a].index, ev[a].prev_hash, ev[a].payload, ev[a].ts)]
    /\ UNCHANGED <<store, agents, agent_last_ts, branch>>

\* verify_event_full(ev, m.verify_key, controller, stats)
Verify(a) ==
    /\ ev[a] # NoEvent
    /\ stats.total_events < MaxVerify
    /\ stats' = StatsAfter(stats, ev[a], VerifyKey(a))
    /\ state' = ControllerUpdate(state, ev[a].model_id, VerifyOk(ev[a], VerifyKey(a)))
    /\ ret' = Call("verify", a, ev[a], 0,
                   IF VerifyOk(ev[a], VerifyKey(a)) THEN "ok" ELSE "bad")
    /\ UNCHANGED <<store, agents, agent_last_ts, ev, branch>>

Next ==
    \/ \E a \in Agents : MakeEvent(a)
    \/ \E a \in Agents : AppendEvent(a)
    \/ AppendRebuilt
    \/ Commit
    \/ \E a \in Agents : Verify(a)

Spec == Init /\ [][Next]_vars

\* The store under its callers: agents' events and rebuilt events.
NextStore ==
    \/ \E a \in Agents : MakeEvent(a)
    \/ \E a \in Agents : AppendEvent(a)
    \/ AppendRebuilt

\* One honest instance and one CommitDrift instance, the variant whose events
\* reach the store with an overwritten event_hash.
InitStore ==
    /\ Init
    /\ autocommit = TRUE
    /\ variant["a1"] = "Honest"
    /\ variant["a2"] = "CommitDrift"

SpecStore == InitStore /\ [][NextStore]_vars

\* The loop of run_stress: make_event, append, verify_event_full.
NextVerify ==
    \/ \E a \in Agents : MakeEvent(a)
    \/ \E a \in Agents : AppendEvent(a)
    \/ \E a \in Agents : Verify(a)

\* run_stress.py:197 builds the store with the default autocommit=True.
InitVerify ==
    /\ Init
    /\ autocommit = TRUE

SpecVerify == InitVerify /\ [][NextVerify]_vars

\* The process exits and is started again on the same database file.  Rows
\* inserted since the last conn.commit() were never committed (append commits
\* only in its batch branch, l.154-158, and the store has no close method), so
\* sqlite rolls them back; LineageStore() connects to the same file with
\* _pending = 0, and the agents, the controller and the statistics are built
\* anew (BaseModel.__init__ sets _last_ts = 0).  An agent's new key pair only
\* ever meets events made after the restart, since ev is reset with it.
\* Mutant of Restart: the reopened file has lost its first row.
Restart_DropsFirst ==
    /\ events' = SubSeq(events, 2, committed)
    /\ pending' = 0
    /\ agent_last_ts' = [a \in Agents |-> 0]
    /\ ev' = [a \in Agents |-> NoEvent]
    /\ branch' = [a \in Agents |-> "none"]
    /\ state' = <<>>
    /\ stats' = [total_events |-> 0, sig_invalid |-> 0, commit_mismatch |-> 0, eventhash_mismatch |-> 0, bad_events |-> 0, per_model_bad |-> <<>>]
    /\ ret' = Call("restart", "none", NoEvent, 0, "ok")
    /\ UNCHANGED <<autocommit, committed, agents>>

Restart ==
    /\ events' = SubSeq(events, 1, committed)
    /\ pending' = 0
    /\ agent_last_ts' = [a \in Agents |-> 0]
    /\ ev' = [a \in Agents |-> NoEvent]
    /\ branch' = [a \in Agents |-> "none"]
    /\ state' = <<>>
    /\ stats' = [total_events |-> 0, sig_invalid |-> 0, commit_mismatch |-> 0, eventhash_mismatch |-> 0, bad_events |-> 0, per_model_bad |-> <<>>]
    /\ ret' = Call("restart", "none", NoEvent, 0, "ok")
    /\ UNCHANGED <<autocommit, committed, agents>>

\* A run that is stopped and started again: make_event, append, an explicit
\* conn.commit() by the driver, and the restart.
NextRestart ==
    \/ \E a \in Agents : MakeEvent(a)
    \/ \E a \in Agents : AppendEvent(a)
    \/ Commit
    \/ Restart

InitRestart ==
    /\ Init
    /\ autocommit = TRUE

SpecRestart == InitRestart /\ [][NextRestart]_vars

\* controller.update(model_id, valid) called with any verdict.  The stream of
\* model "A" is unbounded (its state space is finite); the other model_id is
\* updated only from its default state, which keeps the product small.
CtlUpdate(m, valid) ==
    /\ IF m = "A" \/ m \notin DOMAIN state THEN TRUE
       ELSE state[m] = [weight |-> 1000, theta |-> 500]
    /\ state' = ControllerUpdate(state, m, valid)
    /\ ret' = Call("update", m, NoEvent, 0, IF valid THEN "ok" ELSE "bad")
    /\ UNCHANGED <<store, agents, agent_last_ts, ev, branch, stats>>

\* controller.get(model_id): _ensure inserts the default entry of an unseen id.
CtlGet(m) ==
    /\ state' = Ensure(state, m)
    /\ ret' = Call("get", m, NoEvent, 0, "ok")
    /\ UNCHANGED <<store, agents, agent_last_ts, ev, branch, stats>>

\* A fresh controller under an arbitrary stream of verdicts.
NextController ==
    \/ \E m \in Models, valid \in BOOLEAN : CtlUpdate(m, valid)
    \/ \E m \in Models : CtlGet(m)

InitController ==
    /\ Init
    /\ autocommit = TRUE
    /\ model_id["a2"] = "B"
    /\ variant["a1"] = "Honest"
    /\ variant["a2"] = "CommitDrift"

SpecController == InitController /\ [][NextController]_vars

\* AnomalyStats() as constructed
FreshStats ==
    [total_events |-> 0, sig_invalid |-> 0, commit_mismatch |-> 0, eventhash_mismatch |-> 0, bad_events |-> 0, per_model_bad |-> <<>>]

\* One pass of the reload loop's body: verify_event_full(ev, vk, controller2, stats2)
ReverifyOne(acc, e, vk) ==
    [stats |-> StatsAfter(acc.stats, e, vk),
     state |-> ControllerUpdate(acc.state, e.model_id, VerifyOk(e, vk))]

\* for ev in chain: verify_event_full(ev, vk, controller2, stats2)
ReverifyChain(acc, chain, vk) ==
    LET f[i \in 0..Len(chain)] ==
            IF i = 0 THEN acc
            ELSE CHOOSE r \in {ReverifyOne(prev, e, vk) : prev \in {f[i - 1]}, e \in {chain[i]}} : TRUE
    IN f[Len(chain)]

\* The reload loop over the agents' chains, on a fresh controller and fresh
\* statistics, each chain verified with its agent's key.
Reverify ==
    ReverifyChain(ReverifyChain([stats |-> FreshStats, state |-> <<>>],
                                get_chain(model_id["a1"]), VerifyKey("a1")),
                  get_chain(model_id["a2"]), VerifyKey("a2"))

\* RELOAD + REVERIFY: LineageStore() is opened again on the same file and
\* takes the place of the first store, which is closed with the rows it never
\* committed; the chains it returns are verified anew.
Reload ==
    /\ UNCHANGED <<autocommit, committed, agents, agent_last_ts, ev, branch>>
    /\ events' = SubSeq(events, 1, committed)
    /\ pending' = 0
    /\ LET r == Reverify'
       IN stats' = r.stats /\ state' = r.state
    /\ ret' = Call("reload", "none", NoEvent, 0, "ok")

\* run_stress: the main loop, the final commit taken at any point or not at
\* all, and the reload, after which the run ends.
NextReload ==
    \/ ret.op # "reload" /\ \E a \in Agents : MakeEvent(a)
    \/ ret.op # "reload" /\ \E a \in Agents : AppendEvent(a)
    \/ ret.op # "reload" /\ \E a \in Agents : Verify(a)
    \/ ret.op # "reload" /\ Commit
    \/ ret.op # "reload" /\ Reload

\* Every agent of the drivers has a model_id of its own.
InitReload ==
    /\ Init
    /\ autocommit = TRUE
    /\ model_id["a2"] = "B"
    /\ variant["a1"] = "Honest"
    /\ variant["a2"] = "CommitDrift"

SpecReload == InitReload /\ [][NextReload]_vars

\* run_stress with two attacker instances, each with a model_id of its own:
\* events of both can fail the checks.
InitTally ==
    /\ Init
    /\ autocommit = TRUE
    /\ model_id["a2"] = "B"
    /\ variant["a1"] = "SigCheat"
    /\ variant["a2"] = "CommitDrift"

SpecTally == InitTally /\ [][NextReload]_vars

\* The i-th event of a run in which the CommitDrift instance a2 alone makes and
\* appends events on an empty store while the clock stands at 0, every draw
\* being "event_hash_only": index i - 1, ts i (models.py:33-40), prev_hash the
\* sentinel its predecessor stored as event_hash, signed before the mutation.
BulkEvent(i) ==
    LET prev == IF i = 1 THEN GENESIS ELSE BEEF16
        u == rebuild_event(model_id["a2"], i - 1, CHOOSE p \in Payloads : TRUE, prev, i, NoSignature)
        h == [u EXCEPT !.signature = sign_event(canonical_bytes(u), SigningKey("a2"))]
    IN CommitDriftMutate(h, "event_hash_only")

\* BulkLen passes of the main loop of run_stress (make_event, append) by a2 on
\* the fresh store, taken as one step: one event short of the batch size.
BulkRun ==
    /\ events = <<>>
    /\ variant["a2"] = "CommitDrift"
    /\ agent_last_ts["a2"] = 0
    /\ events' = [i \in 1..BulkLen |-> BulkEvent(i)]
    /\ pending' = BulkLen
    /\ agent_last_ts' = [agent_last_ts EXCEPT !["a2"] = BulkLen]
    /\ ev' = [ev EXCEPT !["a2"] = BulkEvent(BulkLen)]
    /\ branch' = [branch EXCEPT !["a2"] = "event_hash_only"]
    /\ ret' = Call("run", "a2", BulkEvent(BulkLen), 0, "ok")
    /\ UNCHANGED <<autocommit, committed, agents, state, stats>>

\* A long run: a batch written by a2, then make_event and append by both
\* instances, explicit commits, and restarts.
NextBatch ==
    \/ BulkRun
    \/ \E a \in Agents : MakeEvent(a)
    \/ \E a \in Agents : AppendEvent(a)
    \/ Commit
    \/ Restart

InitBatch ==
    /\ Init
    /\ model_id["a2"] = "B"
    /\ variant["a1"] = "Honest"
    /\ variant["a2"] = "CommitDrift"

SpecBatch == InitBatch /\ [][NextBatch]_vars

\* The instance's class mutates, in place, the event object the driver still
\* holds after it was appended (att.mutate_event(ev)).  The rows of the table
\* are copies made by the INSERT of append.
MutateHeld(a) ==
    /\ \E i \in 1..Len(events) : events[i] = ev[a]
    /\ \E draw \in Draws(a) :
          /\ mutate_event(a, ev[a], draw) # ev[a]
          /\ ev' = [ev EXCEPT ![a] = mutate_event(a, ev[a], draw)]
    /\ ret' = Call("mutate", a, ev'[a], 0, "ok")
    /\ UNCHANGED <<store, agents, agent_last_ts, branch, state, stats>>

\* The store under its callers, who may also change the event objects they hold.
NextLog ==
    \/ \E a \in Agents : MakeEvent(a)
    \/ \E a \in Agents : AppendEvent(a)
    \/ AppendRebuilt
    \/ \E a \in Agents : MutateHeld(a)

SpecLog == InitStore /\ [][NextLog]_vars

\* ------------------------------------------------------------------ claims

\* C1: the stored index values are exactly 0 .. n-1 in log order and
\* next_index() is n, the number of stored events; n starts at 0, grows by
\* exactly one on each successful append and neither a rejected append nor any
\* other call changes it or the log.
C1_Dense ==
    /\ \A i \in 1..Len(events) : events[i].index = i - 1
    /\ {events[i].index : i \in 1..Len(events)} = 0..(Len(events) - 1)
    /\ next_index = Len(events)

C1_Step ==
    IF ret'.op = "append" /\ ret'.result = "ok"
    THEN next_index' = next_index + 1 /\ Len(events') = Len(events) + 1
    ELSE next_index' = next_index /\ events' = events

C1_DenseIndex == [](C1_Dense) /\ [][C1_Step]_vars

C1_Witness ==
    /\ ret.op = "append"
    /\ ret.result = "IndexMismatch"
    /\ Len(events) = 3
    /\ \E i, j \in 1..Len(events) : events[i].model_id # events[j].model_id

\* C2: in every model_id's chain the first event has prev_hash = GENESIS and
\* every later event's prev_hash is the stored event_hash of the event before
\* it in the chain, overwritten or not.
C2_ChainContinuity ==
    \A m \in Models :
        LET ch == get_chain(m)
        IN \A k \in 1..Len(ch) :
              ch[k].prev_hash = IF k = 1 THEN GENESIS ELSE ch[k - 1].event_hash

C2_Witness ==
    \E m \in Models :
        LET ch == get_chain(m)
        IN /\ Len(ch) = 2
           /\ ch[1].event_hash = BEEF16
           /\ ch[2].prev_hash = BEEF16
           /\ ch[2].index = ch[1].index + 2

\* The store as a caller can observe it.
Observed(mid) == <<next_index, last_hash(mid), last_ts(mid)>>

StoreUnchanged ==
    /\ events' = events
    /\ pending' = pending
    /\ committed' = committed
    /\ \A m \in Models : Observed(m)' = Observed(m)

\* C3: append(e) with e.index # next_index() fails with the index-mismatch
\* error and leaves the log, next_index(), every last_hash and last_ts and the
\* count of unflushed appends as they were.
C3_IndexMismatch ==
    [][(ret'.op = "append" /\ ret'.ev.index # next_index)
        => (ret'.result = "IndexMismatch" /\ StoreUnchanged)]_vars

C3_Witness ==
    /\ ret.op = "append"
    /\ ret.result = "IndexMismatch"
    /\ ret.ev.index = next_index + 1
    /\ pending = 2

\* C4: append(e) with e.index = next_index() and e.prev_hash #
\* last_hash(e.model_id) fails with the prev-hash-mismatch error and leaves
\* the store as it was.
C4_PrevHashMismatch ==
    [][(/\ ret'.op = "append"
        /\ ret'.ev.index = next_index
        /\ ret'.ev.prev_hash # last_hash(ret'.ev.model_id))
        => (ret'.result = "PrevHashMismatch" /\ StoreUnchanged)]_vars

C4_Witness ==
    /\ ret.op = "append"
    /\ ret.result = "PrevHashMismatch"
    /\ ret.ev.index = next_index
    /\ ret.ev.prev_hash = GENESIS
    /\ pending = 2

\* The draws on which an adversarial branch fired.
Fired == {"cheat", "payload_commit_only", "event_hash_only", "both", "drip"}

\* C5: an event of a SigCheat, CommitDrift or SlowDrip agent whose adversarial
\* branch fired is accepted by append in the store state it was built against,
\* and full verification of it returns ok = false.
C5_AttackAcceptedAndCaught ==
    /\ \A a \in Agents :
          branch[a] \in Fired => ~VerifyOk(ev[a], VerifyKey(a))
    /\ (ret.op = "make_event" /\ branch[ret.agent] \in Fired)
          => AppendResult(ret.ev) = "ok"
    /\ (ret.op = "verify" /\ branch[ret.agent] \in Fired) => ret.result = "bad"

C5_Witness ==
    /\ ret.op = "append"
    /\ ret.result = "ok"
    /\ branch[ret.agent] = "both"
    /\ ret.ev = ev[ret.agent]
    /\ events[Len(events)] = ret.ev
    /\ ~VerifyOk(ret.ev, VerifyKey(ret.agent))

\* C6: an event built by make_event with no adversarial branch firing verifies
\* with sig_ok, commit_ok and hash_ok all true and has payload_hash =
\* event_hash, whatever precedes it in the store; and an event whose canonical
\* signing bytes differ from the bytes that were signed has sig_ok false.
C6_HonestVerifies ==
    /\ \A a \in Agents :
          branch[a] = "honest" =>
             /\ SigOk(ev[a], VerifyKey(a))
             /\ CommitOk(ev[a])
             /\ EventHashOk(ev[a])
             /\ ev[a].payload_hash = ev[a].event_hash
    /\ \A a \in Agents :
          (ev[a] # NoEvent /\ canonical_bytes(ev[a]) # ev[a].signature.msg)
             => ~SigOk(ev[a], VerifyKey(a))
    /\ (ret.op = "verify" /\ branch[ret.agent] = "honest") => ret.result = "ok"

C6_Witness ==
    /\ ret.op = "verify"
    /\ ret.result = "ok"
    /\ branch[ret.agent] = "honest"
    /\ variant[ret.agent] = "CommitDrift"
    /\ ret.ev.prev_hash = BEEF16
    /\ ret.ev.index = 2

\* C7 as stated: an event whose payload_commit alone was overwritten with the
\* sentinel verifies with sig_ok = true, commit_ok = false, hash_ok = true,
\* ok = false.
C7_Original ==
    \A a \in Agents :
        branch[a] = "payload_commit_only" =>
           /\ SigOk(ev[a], VerifyKey(a))
           /\ ~CommitOk(ev[a])
           /\ EventHashOk(ev[a])
           /\ ~VerifyOk(ev[a], VerifyKey(a))

\* C7 as amended: an event whose payload_commit alone was overwritten with the
\* sentinel verifies with sig_ok = false (the canonical signing bytes contain
\* payload_commit), commit_ok = false, hash_ok = true, ok = false.
C7_CommitDrift ==
    \A a \in Agents :
        branch[a] = "payload_commit_only" =>
           /\ ~SigOk(ev[a], VerifyKey(a))
           /\ ~CommitOk(ev[a])
           /\ EventHashOk(ev[a])
           /\ ~VerifyOk(ev[a], VerifyKey(a))

C7_Witness ==
    /\ ret.op = "verify"
    /\ ret.result = "bad"
    /\ branch[ret.agent] = "payload_commit_only"
    /\ ret.ev.payload_commit = DEAD16
    /\ ret.ev.event_hash # BEEF16

\* C8: an event signed over the byte-reversed canonical bytes, all else built
\* honestly, is accepted by append, verifies with sig_ok = false, commit_ok =
\* true, hash_ok = true, ok = false, and its verification applies exactly one
\* bad update to its model_id's controller state and to no other.
C8_Verdict ==
    /\ \A a \in Agents :
          branch[a] = "cheat" =>
             /\ ~SigOk(ev[a], VerifyKey(a))
             /\ CommitOk(ev[a])
             /\ EventHashOk(ev[a])
             /\ ~VerifyOk(ev[a], VerifyKey(a))
    /\ (ret.op = "make_event" /\ branch[ret.agent] = "cheat")
          => AppendResult(ret.ev) = "ok"

C8_Step ==
    (ret'.op = "verify" /\ branch[ret'.agent] = "cheat") =>
        LET m == ret'.ev.model_id
            before == IF m \in DOMAIN state THEN state[m]
                      ELSE [weight |-> 1000, theta |-> 500]
        IN /\ ret'.result = "bad"
           /\ DOMAIN state' = DOMAIN state \cup {m}
           /\ state'[m].weight = Max2(0, before.weight - 100)
           /\ state'[m].theta = Min2(500, before.theta + 30)
           /\ \A o \in DOMAIN state \ {m} : state'[o] = state[o]
           /\ stats'.bad_events = stats.bad_events + 1

C8_SigCheat == [](C8_Verdict) /\ [][C8_Step]_vars

C8_Witness ==
    /\ ret.op = "verify"
    /\ ret.result = "bad"
    /\ branch[ret.agent] = "cheat"
    /\ \E i \in 1..Len(events) : events[i] = ret.ev
    /\ state[ret.ev.model_id] = [weight |-> 900, theta |-> 500]

\* C9: an event whose payload was extended with the suffix after its
\* payload_commit and event_hash were computed verifies with commit_ok = false
\* and hash_ok = false, hence ok = false.
C9_SlowDrip ==
    \A a \in Agents :
        branch[a] = "drip" =>
           /\ ~CommitOk(ev[a])
           /\ ~EventHashOk(ev[a])
           /\ ~VerifyOk(ev[a], VerifyKey(a))

C9_Witness ==
    /\ ret.op = "verify"
    /\ ret.result = "bad"
    /\ branch[ret.agent] = "drip"
    /\ ret.ev.payload = <<"x">> \o SHADOW
    /\ SigOk(ret.ev, VerifyKey(ret.agent))

\* C10: on one agent instance every make_event call returns a ts greater than
\* the ts of the instance's previous event, whatever the wall clock reads and
\* whether or not the previous event was appended, and at least the wall-clock
\* reading of the call.
C10_MonotoneTs ==
    [][\A a \in Agents :
          (ret'.op = "make_event" /\ ret'.agent = a) =>
             /\ ev'[a].ts >= ret'.now
             /\ ev[a] # NoEvent => ev'[a].ts > ev[a].ts]_vars

C10_Witness ==
    /\ ret.op = "make_event"
    /\ ret.now = 0
    /\ ret.ev.ts = 2
    /\ events = <<>>

\* C11: after an agent has appended an event with timestamp t and the process
\* has exited, a fresh instance with the same model_id on a freshly opened store
\* over the same file emits its next event with a timestamp of at least t + 1,
\* whatever the wall clock reads.
C11_RestartStep ==
    ret'.op = "restart" =>
        \A a \in Agents, now \in Clock :
            last_ts(model_id[a]) # None =>
                (next_ts(a, now))' >= last_ts(model_id[a]) + 1

C11_RestartMonotone == [][C11_RestartStep]_vars

\* C12: whatever instances (sharing a model_id or not, of any variant) make and
\* append events under whatever clock, the timestamps within each model_id's
\* chain are strictly increasing in index order.
C12_StrictTs ==
    \A m \in Models :
        LET c == get_chain(m)
        IN \A i \in 1..(Len(c) - 1) : c[i].ts < c[i + 1].ts

C12_Witness ==
    /\ Len(get_chain("A")) >= 2
    /\ get_chain("A")[1].signature.key # get_chain("A")[2].signature.key
    /\ agent_last_ts[get_chain("A")[2].signature.key] = get_chain("A")[2].ts
    /\ get_chain("A")[1].ts = MaxClock - 1

\* C13: after every update of every verdict stream on a fresh controller, each
\* model_id's weight is within 0..1000 and its theta within 50..500.
C13_Saturation ==
    \A m \in DOMAIN state :
        /\ 0 <= state[m].weight /\ state[m].weight <= 1000
        /\ 50 <= state[m].theta /\ state[m].theta <= 500

C13_Witness ==
    /\ ret.op = "update"
    /\ \E m \in DOMAIN state : state[m].weight = 0 /\ state[m].theta = 500
    /\ \E m \in DOMAIN state : state[m].weight = 1000 /\ state[m].theta = 492

C13_WitnessLow ==
    /\ ret.op = "update"
    /\ ret.result = "ok"
    /\ "A" \in DOMAIN state
    /\ state["A"].theta = 50
    /\ state["A"].weight = 1000

\* C14: an unseen model_id stands at (1000, 500); a good verdict moves the
\* updated model_id to (min(1000, w + 30), max(50, theta - 8)), a bad one to
\* (max(0, w - 100), min(500, theta + 30)); every other model_id keeps its
\* state; one good verdict on a fresh model_id yields (1000, 492).
Get(st, m) == Ensure(st, m)[m]

C14_Step ==
    \A m \in Models :
        /\ (ret'.op = "get" /\ ret'.agent = m /\ m \notin DOMAIN state) =>
              state'[m] = [weight |-> 1000, theta |-> 500]
        /\ (ret'.op = "update" /\ ret'.agent = m) =>
              /\ ret'.result = "ok" =>
                    /\ state'[m].weight = Min2(1000, Get(state, m).weight + 30)
                    /\ state'[m].theta = Max2(50, Get(state, m).theta - 8)
              /\ ret'.result = "bad" =>
                    /\ state'[m].weight = Max2(0, Get(state, m).weight - 100)
                    /\ state'[m].theta = Min2(500, Get(state, m).theta + 30)
              /\ (ret'.result = "ok" /\ m \notin DOMAIN state) =>
                    state'[m] = [weight |-> 1000, theta |-> 492]
              /\ \A k \in Models \ {m} :
                    /\ k \in DOMAIN state' <=> k \in DOMAIN state
                    /\ k \in DOMAIN state => state'[k] = state[k]

C14_UpdateSemantics == [][C14_Step]_vars

C14_Witness ==
    /\ ret.op = "update"
    /\ ret.agent = "B"
    /\ ret.result = "ok"
    /\ DOMAIN state = {"A", "B"}
    /\ state["B"] = [weight |-> 1000, theta |-> 492]
    /\ state["A"] = [weight |-> 430, theta |-> 314]

\* C16: after a run that appended and verified its events and then closed the
\* store, a fresh store on the same file returns all of them from all_events()
\* and re-verifying them with their agents' keys gives the same verdicts and
\* the same anomaly counters as the run had.
C16_ReloadStep ==
    (/\ ret'.op = "reload"
     /\ Len(events) > 0
     /\ stats = Reverify.stats) =>
        /\ all_events' = all_events
        /\ stats' = stats
        /\ state' = Reverify.state

C16_ReloadFidelity == [][C16_ReloadStep]_vars

\* The rows inserted and not yet committed.
Unflushed == Len(events) - committed

\* C17: on a store with autocommit the number of successful appends since the
\* last flush is within 0..999 whenever append has returned; the 1000th
\* successful append since the last flush commits and resets the counter to 0;
\* a rejected append does not advance the counter.
C17_Counter ==
    autocommit =>
        /\ 0 <= pending /\ pending <= BatchSize - 1
        /\ 0 <= Unflushed /\ Unflushed <= BatchSize - 1

C17_Step ==
    (autocommit /\ ret'.op = "append") =>
        /\ (ret'.result = "ok" /\ Unflushed = BatchSize - 1) =>
              /\ pending' = 0
              /\ committed' = Len(events')
              /\ Len(events') = Len(events) + 1
        /\ (ret'.result = "ok" /\ pending < BatchSize - 1) =>
              pending' = pending + 1 /\ committed' = committed
        /\ ret'.result # "ok" =>
              pending' = pending /\ committed' = committed /\ events' = events

C17_BatchedCommit == [](C17_Counter) /\ [][C17_Step]_vars

C17_Witness ==
    /\ autocommit
    /\ ret.op = "append"
    /\ ret.result = "ok"
    /\ ret.agent = "a1"
    /\ Len(events) = BatchSize
    /\ committed = BatchSize
    /\ pending = 0

\* Every row's prev_hash is the stored event_hash of the row before it in its
\* model_id's chain, the genesis value for the first.  ChainScan(lo, hi) reads
\* the rows lo..hi once: whether they are linked among themselves, and per
\* model_id the prev_hash its first row asks for and the event_hash its last
\* row offers (<<>> where the model_id has no row there).
ScanJoin(l, r) ==
    [ok |-> /\ l.ok
            /\ r.ok
            /\ \A m \in Models :
                  (l.last[m] # <<>> /\ r.first[m] # <<>>) => r.first[m] = l.last[m],
     first |-> [m \in Models |-> IF l.first[m] # <<>> THEN l.first[m] ELSE r.first[m]],
     last |-> [m \in Models |-> IF r.last[m] # <<>> THEN r.last[m] ELSE l.last[m]]]

RECURSIVE ChainScan(_, _)
ChainScan(lo, hi) ==
    IF lo = hi
    THEN [ok |-> TRUE,
          first |-> [m \in Models |-> IF events[lo].model_id = m THEN events[lo].prev_hash ELSE <<>>],
          last |-> [m \in Models |-> IF events[lo].model_id = m THEN events[lo].event_hash ELSE <<>>]]
    ELSE CHOOSE s \in {ScanJoin(l, r) : l \in {ChainScan(lo, (lo + hi) \div 2)},
                                       r \in {ChainScan((lo + hi) \div 2 + 1, hi)}} : TRUE

Linked ==
    \/ events = <<>>
    \/ \A s \in {ChainScan(1, Len(events))} :
          s.ok /\ \A m \in Models : s.first[m] \in {<<>>, GENESIS}

DenseFromZero == \A i \in 1..Len(events) : events[i].index = i - 1

\* C18 as stated, for every store: the durable log is a prefix of the
\* in-session log and at most 999 events shorter at every point; a crash leaves
\* a log with dense indices from 0 and prev-hash continuity, and loses at most
\* the last 999 appends.
C18_Lag ==
    /\ 0 <= committed /\ committed <= Len(events)
    /\ Unflushed <= BatchSize - 1

C18_CrashStep ==
    ret'.op = "restart" =>
        /\ events' = SubSeq(events, 1, Len(events'))
        /\ Len(events) - Len(events') <= BatchSize - 1
        /\ DenseFromZero'
        /\ Linked'

C18_Original == [](C18_Lag) /\ [][C18_CrashStep]_vars

\* C18, amended: the same on a store with autocommit enabled.
C18_DurablePrefix == [](autocommit => C18_Lag) /\ [][autocommit => C18_CrashStep]_vars

C18_Witness ==
    /\ autocommit
    /\ ret.op = "append"
    /\ Unflushed = BatchSize - 1
    /\ agent_last_ts["a1"] > 0

\* C19: a successful append adds exactly the event passed, with its nine
\* fields, as the new last element of all_events(); the earlier events keep
\* their places and fields; no other call (a rejected append, make_event, the
\* read operations) changes the log, and neither does a change made to an
\* event object after it was appended.
C19_Step ==
    IF ret'.op = "append" /\ ret'.result = "ok"
    THEN /\ all_events' = Append(all_events, ret'.ev)
         /\ DOMAIN all_events'[Len(all_events')] = DOMAIN NoEvent
    ELSE all_events' = all_events

C19_AppendOnly == [][C19_Step]_vars

C19_Witness ==
    /\ ret.op = "mutate"
    /\ Len(events) = 2
    /\ \E i \in 1..2 :
          /\ events[i].index = ret.ev.index
          /\ events[i].signature = ret.ev.signature
          /\ events[i] # ret.ev

\* C20: chain(M) is the subsequence of all_events() with model_id M, in index
\* order, unflushed events included; the chains of distinct model_ids share no
\* event and together hold every event of the log; after events of A, B, A
\* chain(A) is the events of index 0 and 2, the second linked to the first, and
\* chain(B) the event of index 1 with the genesis prev_hash.
OfModel(m, e) == e.model_id = m

ChainIdx(m) == {get_chain(m)[i].index : i \in 1..Len(get_chain(m))}

C20_Chains ==
    /\ \A m \in Models : get_chain(m) = SelectSeq(all_events, LAMBDA e : OfModel(m, e))
    /\ \A m \in Models : Cardinality(ChainIdx(m)) = Len(get_chain(m))
    /\ \A m1, m2 \in Models : m1 # m2 => ChainIdx(m1) \cap ChainIdx(m2) = {}
    /\ UNION {ChainIdx(m) : m \in Models} = {all_events[i].index : i \in 1..Len(all_events)}
    /\ (/\ Len(all_events) = 3
        /\ all_events[1].model_id = "A"
        /\ all_events[2].model_id = "B"
        /\ all_events[3].model_id = "A") =>
          /\ get_chain("A") = <<all_events[1], all_events[3]>>
          /\ all_events[1].index = 0 /\ all_events[3].index = 2
          /\ all_events[3].prev_hash = all_events[1].event_hash
          /\ get_chain("B") = <<all_events[2]>>
          /\ all_events[2].index = 1
          /\ all_events[2].prev_hash = GENESIS

C20_Witness ==
    /\ Len(events) = 3
    /\ committed = 0
    /\ events[1].model_id = "A"
    /\ events[2].model_id = "B"
    /\ events[3].model_id = "A"
    /\ events[1].signature.key = "a1"
    /\ events[2].signature.key = "a2"
    /\ events[3].signature.key = "a1"

\* C21 as stated: a full verification changes nothing but its return value:
\* the event's fields, the store, the controller and the counters are the same
\* before and after, and the outcome is a verdict, never an error.
C21_Original ==
    [][ret'.op = "verify" =>
          /\ ev' = ev
          /\ StoreUnchanged
          /\ state' = state
          /\ stats' = stats
          /\ ret'.result \in {"ok", "bad"}]_vars

\* C21: a full verification leaves the event's fields, the store and the
\* agents as they were; its verdict is a function of the event and the verify
\* key alone, and a failed signature, commitment or hash check is the verdict
\* false, never an error; its only effects are one more counted event in the
\* counters and one update of the controller entry of the event's model_id,
\* every other entry being left alone.
C21_Step ==
    ret'.op = "verify" =>
        LET a == ret'.agent
            e == ev[a]
            m == e.model_id
        IN /\ ev' = ev
           /\ ret'.ev = e
           /\ StoreUnchanged
           /\ UNCHANGED <<autocommit, agents, agent_last_ts, branch>>
           /\ ret'.result \in {"ok", "bad"}
           /\ ret'.result = "ok" <=> VerifyOk(e, VerifyKey(a))
           /\ (~SigOk(e, VerifyKey(a)) \/ ~CommitOk(e) \/ ~EventHashOk(e)) => ret'.result = "bad"
           /\ stats'.total_events = stats.total_events + 1
           /\ DOMAIN state' = DOMAIN state \cup {m}
           /\ \A o \in DOMAIN state \ {m} : state'[o] = state[o]
           /\ state'[m] = ControllerUpdate(state, m, ret'.result = "ok")[m]
           /\ state' # state

C21_VerifyFrame == [][C21_Step]_vars

C21_Witness ==
    /\ ret.op = "verify"
    /\ ret.result = "bad"
    /\ ~EventHashOk(ret.ev)
    /\ ev[ret.agent] = ret.ev
    /\ \E i \in 1..Len(events) : events[i] = ret.ev
    /\ stats.total_events = 1
    /\ state[ret.ev.model_id].weight = 900

\* C22: after any sequence of full verifications total_events is the number
\* of verifications; sig_invalid, commit_mismatch and eventhash_mismatch are
\* the numbers of verified events whose signature, commitment or hash check
\* failed; bad_events is the number of events with ok = false, each counted
\* once, equals the sum of the per-model_id tallies and lies between the
\* largest of the three counters and their sum; and the controller receives a
\* bad update exactly when bad_events is incremented.
KeyOf(e) == VerifyKey(CHOOSE a \in Agents : model_id[a] = e.model_id)

NumVerified(Failed(_)) == Cardinality({i \in 1..Len(events) : Failed(events[i])})

RECURSIVE SumOver(_, _)
SumOver(f, S) ==
    IF S = {} THEN 0
    ELSE LET m == CHOOSE x \in S : TRUE IN f[m] + SumOver(f, S \ {m})

C22_Bounds ==
    /\ stats.bad_events = SumOver(stats.per_model_bad, DOMAIN stats.per_model_bad)
    /\ \A m \in DOMAIN stats.per_model_bad : stats.per_model_bad[m] >= 1
    /\ Max2(stats.sig_invalid, Max2(stats.commit_mismatch, stats.eventhash_mismatch)) <= stats.bad_events
    /\ stats.bad_events <= stats.sig_invalid + stats.commit_mismatch + stats.eventhash_mismatch
    /\ stats.bad_events <= stats.total_events

\* After the reload loop the verified events are the events of the log.
C22_Reverified ==
    ret.op = "reload" =>
        /\ stats.total_events = Len(events)
        /\ stats.sig_invalid = NumVerified(LAMBDA e : ~SigOk(e, KeyOf(e)))
        /\ stats.commit_mismatch = NumVerified(LAMBDA e : ~CommitOk(e))
        /\ stats.eventhash_mismatch = NumVerified(LAMBDA e : ~EventHashOk(e))
        /\ stats.bad_events = NumVerified(LAMBDA e : ~VerifyOk(e, KeyOf(e)))
        /\ \A m \in Models :
              (IF m \in DOMAIN stats.per_model_bad THEN stats.per_model_bad[m] ELSE 0)
                 = NumVerified(LAMBDA e : e.model_id = m /\ ~VerifyOk(e, KeyOf(e)))

C22_Step ==
    ret'.op = "verify" =>
        LET e == ret'.ev
            vk == VerifyKey(ret'.agent)
            m == e.model_id
            Inc(failed) == IF failed THEN 1 ELSE 0
            bad == ~SigOk(e, vk) \/ ~CommitOk(e) \/ ~EventHashOk(e)
            tally(st) == IF m \in DOMAIN st.per_model_bad THEN st.per_model_bad[m] ELSE 0
        IN /\ stats'.total_events = stats.total_events + 1
           /\ stats'.sig_invalid = stats.sig_invalid + Inc(~SigOk(e, vk))
           /\ stats'.commit_mismatch = stats.commit_mismatch + Inc(~CommitOk(e))
           /\ stats'.eventhash_mismatch = stats.eventhash_mismatch + Inc(~EventHashOk(e))
           /\ stats'.bad_events = stats.bad_events + Inc(bad)
           /\ tally(stats') = tally(stats) + Inc(bad)
           /\ bad <=> ret'.result = "bad"
           /\ stats'.bad_events = stats.bad_events + 1
                 <=> state'[m] = ControllerUpdate(state, m, FALSE)[m]
           /\ stats'.bad_events = stats.bad_events
                 <=> state'[m] = ControllerUpdate(state, m, TRUE)[m]

C22_Counters == [](C22_Bounds /\ C22_Reverified) /\ [][C22_Step]_vars

\* A reload that verified three events: one good, one failing the signature
\* check alone, one failing all three checks and counted once.
C22_Witness ==
    /\ ret.op = "reload"
    /\ stats.total_events = 3
    /\ stats.bad_events = 2
    /\ stats.sig_invalid = 2
    /\ stats.commit_mismatch = 1
    /\ stats.eventhash_mismatch = 1
    /\ DOMAIN stats.per_model_bad = {"A", "B"}

\* A single verification of an event failing the signature and hash checks.
C22_WitnessStep ==
    /\ ret.op = "verify"
    /\ CommitOk(ret.ev)
    /\ ~EventHashOk(ret.ev)
    /\ stats.bad_events = 1
    /\ stats.sig_invalid + stats.commit_mismatch + stats.eventhash_mismatch = 2
    /\ state[ret.ev.model_id].weight = 900

\* C23: an event built by make_event is accepted by append exactly when no
\* append succeeded between its construction and its append: it is acceptable
\* when built and stays so while the log stands still; every successful append
\* turns every event held at that moment, the appended one and those built
\* against the same store state included, into one that append rejects with
\* the index-mismatch error, for good and without touching the store; so two
\* events built against the same state are never both stored.
Held(a) == AppendResult(ev[a])

C23_NeverBoth ==
    \A i, j \in 1..Len(events) : events[i].index = events[j].index => i = j

C23_Step ==
    /\ \A a \in Agents :
          (ret'.op = "make_event" /\ ret'.agent = a) =>
             /\ ev'[a].index = next_index
             /\ Held(a)' = "ok"
    /\ \A a \in Agents :
          (ev[a] # NoEvent /\ ev'[a] = ev[a]) =>
             /\ events' = events => Held(a)' = Held(a)
             /\ events' # events => Held(a)' = "IndexMismatch"
             /\ Held(a) = "IndexMismatch" => Held(a)' = "IndexMismatch"
    /\ \A a \in Agents :
          (ret'.op = "append" /\ ret'.agent = a) =>
             /\ ret'.ev = ev[a]
             /\ ret'.result = Held(a)
             /\ ret'.result = "ok" => events' = Append(events, ev[a])
             /\ ret'.result # "ok" => StoreUnchanged
    /\ (ret'.op = "append" /\ ret'.result = "ok") <=> events' # events

C23_StaleEventRace == [](C23_NeverBoth) /\ [][C23_Step]_vars

\* Both agents built an event of model A against the store of one event; a1
\* appended first, a2's append was then rejected.
C23_Witness ==
    /\ ret.op = "append"
    /\ ret.agent = "a2"
    /\ ret.result = "IndexMismatch"
    /\ model_id["a2"] = "A"
    /\ ev["a1"].index = 1
    /\ ev["a2"].index = 1
    /\ ev["a1"].prev_hash = ev["a2"].prev_hash
    /\ Len(events) = 2
    /\ events[2] = ev["a1"]

\* C24: an event produced by make_event of any agent variant, mutated or not,
\* never meets the prev-hash-mismatch error on the store it was built
\* against: whenever it passes the index check it passes the prev_hash check,
\* so the only rejection append gives it is the index mismatch.
C24_HeldEvents ==
    \A a \in Agents :
        ev[a] # NoEvent =>
           /\ ev[a].index = next_index => ev[a].prev_hash = last_hash(ev[a].model_id)
           /\ AppendResult(ev[a]) \in {"ok", "IndexMismatch"}

C24_Step ==
    (ret'.op = "append" /\ ret'.agent \in Agents) =>
        /\ ret'.result \in {"ok", "IndexMismatch"}
        /\ ret'.result = "IndexMismatch" <=> ret'.ev.index # next_index

C24_NoPrevHashMismatch == [](C24_HeldEvents) /\ [][C24_Step]_vars

\* A SigCheat event built on a predecessor of the same model_id that the
\* CommitDrift agent stored with an overwritten event_hash, and accepted.
C24_Witness ==
    /\ ret.op = "append"
    /\ ret.agent = "a1"
    /\ ret.result = "ok"
    /\ branch["a1"] = "cheat"
    /\ ret.ev.index = 1
    /\ ret.ev.prev_hash = BEEF16
    /\ events[1].signature.key = "a2"
    /\ events[2] = ret.ev

\* A SlowDrip event with the extended payload, stale, rejected for its index.
C24_WitnessStale ==
    /\ ret.op = "append"
    /\ ret.agent = "a2"
    /\ ret.result = "IndexMismatch"
    /\ branch["a2"] = "drip"
    /\ ret.ev.prev_hash # last_hash(ret.ev.model_id)

====
